---------------------------- MODULE Spec2Model ----------------------------
(***************************************************************************)
(* Model of dso::ImmaturePoint (src/src/FullSystem/ImmaturePoint.cpp):     *)
(* construction, the epipolar search traceOn, and the residual functions   *)
(* calcResidual, linearizeResidual and getdPixdd.                          *)
(*                                                                         *)
(* C++ 'float' values are modelled as decimal floating point numbers with  *)
(* a four digit mantissa, m * 10^e with 1000 <= |m| <= 9999, plus zero,    *)
(* +Inf, -Inf and NaN.  Results are truncated to four digits; there is no  *)
(* signed zero.  Comparisons with NaN are false, as in IEEE 754.           *)
(*                                                                         *)
(* The locals of a C++ function are held in a record L; a statement that   *)
(* assigns locals is written New @@ L, where New holds the assigned ones.  *)
(***************************************************************************)
EXTENDS Integers, Sequences, FiniteSets, TLC

(***************************************************************************)
(* float                                                                   *)
(***************************************************************************)
NaN  == [m |-> 0,  e |-> 99]
PInf == [m |-> 1,  e |-> 99]
NInf == [m |-> -1, e |-> 99]
Zero == [m |-> 0,  e |-> 0]

isfinite(x) == x.e # 99
IsNaN(x)    == x.e = 99 /\ x.m = 0

Abs(i) == IF i < 0 THEN -i ELSE i
Sgn(i) == IF i < 0 THEN -1 ELSE IF i > 0 THEN 1 ELSE 0

Pow10(k) == <<1, 10, 100, 1000, 10000, 100000, 1000000, 10000000,
              100000000, 1000000000>>[k + 1]

NumDigits(a) ==
    IF a < 10 THEN 1 ELSE IF a < 100 THEN 2 ELSE IF a < 1000 THEN 3
    ELSE IF a < 10000 THEN 4 ELSE IF a < 100000 THEN 5
    ELSE IF a < 1000000 THEN 6 ELSE IF a < 10000000 THEN 7
    ELSE IF a < 100000000 THEN 8 ELSE IF a < 1000000000 THEN 9 ELSE 10

\* the leading four digits of a, which has d digits
FourDigits(a, d) == IF d > 4 THEN a \div Pow10(d - 4) ELSE a * Pow10(4 - d)

\* the float of sign s, mantissa mm, exponent ee; beyond the exponent range of
\* float the value overflows to +-Inf or underflows to 0
Pack(s, mm, ee) ==
    IF ee > 35 THEN (IF s < 0 THEN NInf ELSE PInf)
    ELSE IF ee < -48 THEN Zero
    ELSE [m |-> s * mm, e |-> ee]

NormDigits(i, e, d) == Pack(Sgn(i), FourDigits(Abs(i), d), e + d - 4)

\* the float of i * 10^e: four digits kept, the rest cut
Norm(i, e) == IF i = 0 THEN Zero ELSE NormDigits(i, e, NumDigits(Abs(i)))

FromInt(i) == Norm(i, 0)

FNeg(x) == [m |-> -x.m, e |-> x.e]

\* hi + lo of finite non-zero floats, hi.e >= lo.e
AddAligned(hi, lo) ==
    IF hi.e - lo.e > 4 THEN hi ELSE Norm(hi.m * Pow10(hi.e - lo.e) + lo.m, lo.e)

FAdd(x, y) ==
    IF IsNaN(x) \/ IsNaN(y) THEN NaN
    ELSE IF ~isfinite(x) THEN (IF ~isfinite(y) /\ y.m # x.m THEN NaN ELSE x)
    ELSE IF ~isfinite(y) THEN y
    ELSE IF x.m = 0 THEN y
    ELSE IF y.m = 0 THEN x
    ELSE AddAligned(IF x.e >= y.e THEN x ELSE y, IF x.e >= y.e THEN y ELSE x)

FSub(x, y) == FAdd(x, FNeg(y))

FMul(x, y) ==
    IF IsNaN(x) \/ IsNaN(y) THEN NaN
    ELSE IF ~isfinite(x) \/ ~isfinite(y)
         THEN (IF x.m = 0 \/ y.m = 0 THEN NaN
               ELSE IF Sgn(x.m) * Sgn(y.m) < 0 THEN NInf ELSE PInf)
    ELSE Norm(x.m * y.m, x.e + y.e)

FDiv(x, y) ==
    IF IsNaN(x) \/ IsNaN(y) THEN NaN
    ELSE IF ~isfinite(x)
         THEN (IF ~isfinite(y) THEN NaN
               ELSE IF Sgn(x.m) * (IF y.m < 0 THEN -1 ELSE 1) < 0 THEN NInf ELSE PInf)
    ELSE IF ~isfinite(y) THEN Zero
    ELSE IF y.m = 0
         THEN (IF x.m = 0 THEN NaN ELSE IF x.m < 0 THEN NInf ELSE PInf)
    ELSE Norm(Sgn(x.m) * Sgn(y.m) * ((Abs(x.m) * 10000) \div Abs(y.m)),
              x.e - y.e - 4)

\* x < y, x > y, x == y on float: false as soon as one side is NaN
FLt(x, y) == FSub(x, y).m < 0
FGt(x, y) == FSub(x, y).m > 0
FEq(x, y) == ~IsNaN(x) /\ ~IsNaN(y) /\ x = y
FGe(x, y) == FGt(x, y) \/ FEq(x, y)
FLe(x, y) == FLt(x, y) \/ FEq(x, y)

fabsf(x) == [m |-> Abs(x.m), e |-> x.e]

RECURSIVE ISqrtIter(_, _, _)
ISqrtStep(n, lo, hi, mid) ==
    IF mid * mid <= n THEN ISqrtIter(n, mid, hi) ELSE ISqrtIter(n, lo, mid - 1)

\* the largest r in lo..hi with r * r <= n
ISqrtIter(n, lo, hi) ==
    IF lo >= hi THEN lo ELSE ISqrtStep(n, lo, hi, (lo + hi + 1) \div 2)

\* the square root of mm * 10^ee, ee even
SqrtEven(mm, ee) == Norm(ISqrtIter(mm * 10000, 0, 32000), (ee - 4) \div 2)

sqrtf(x) ==
    IF IsNaN(x) THEN NaN
    ELSE IF x.m < 0 THEN NaN
    ELSE IF ~isfinite(x) THEN PInf
    ELSE IF x.m = 0 THEN Zero
    ELSE IF x.e % 2 # 0 THEN SqrtEven(x.m * 10, x.e - 1)
    ELSE SqrtEven(x.m, x.e)

\* floorf on a finite float
floorf(x) ==
    IF ~isfinite(x) \/ x.e >= 0 THEN x
    ELSE IF x.e < -4 THEN (IF x.m < 0 THEN FromInt(-1) ELSE Zero)
    ELSE FromInt(x.m \div Pow10(-x.e))

\* the conversion float -> int (toward zero) of a finite float in int range
ToInt(x) ==
    IF x.e >= 0 THEN x.m * Pow10(x.e)
    ELSE IF x.e < -4 THEN 0
    ELSE Sgn(x.m) * (Abs(x.m) \div Pow10(-x.e))

One == FromInt(1)
Half == Norm(5, -1)

(***************************************************************************)
(* vectors and matrices of float                                           *)
(***************************************************************************)
Dot2(a, b) == FAdd(FMul(a[1], b[1]), FMul(a[2], b[2]))
Dot3(a, b) == FAdd(FAdd(FMul(a[1], b[1]), FMul(a[2], b[2])), FMul(a[3], b[3]))
MatVec3(M, x) == <<Dot3(M[1], x), Dot3(M[2], x), Dot3(M[3], x)>>
VecAdd3(a, b) == <<FAdd(a[1], b[1]), FAdd(a[2], b[2]), FAdd(a[3], b[3])>>
VecScale3(a, k) == <<FMul(a[1], k), FMul(a[2], k), FMul(a[3], k)>>
Sq(x) == FMul(x, x)

(***************************************************************************)
(* settings and globals                                                    *)
(***************************************************************************)
patternNum == 8
patternP == << <<0, -2>>, <<-1, -1>>, <<1, -1>>, <<-2, 0>>,
               <<0, 0>>,  <<2, 0>>,   <<-1, 1>>, <<0, 2>> >>

wG0 == 200
hG0 == 200

setting_outlierTH                 == FromInt(12 * 12)
setting_outlierTHSumComponent     == FromInt(50 * 50)
setting_overallEnergyTHWeight     == FromInt(1)
setting_huberTH                   == FromInt(9)
setting_maxPixSearch              == Norm(27, -3)
setting_trace_stepsize            == FromInt(1)
setting_trace_GNIterations        == 3
setting_trace_GNThreshold         == Norm(1, -1)
setting_trace_extraSlackOnTH      == Norm(12, -1)
setting_trace_slackInterval       == Norm(8, -1)
setting_trace_minImprovementFactor == FromInt(2)
setting_minTraceTestRadius        == 2

(***************************************************************************)
(* images.  A frame's dI is an intensity ramp c0 + gx*x + gy*y (of which   *)
(* bilinear interpolation is exact) that holds non-finite values in the    *)
(* columns nanLo <= x < nanHi.                                             *)
(***************************************************************************)
getInterpolatedElement33(img, x, y) ==
    IF ~isfinite(x) \/ ~isfinite(y) \/ (FGe(x, img.nanLo) /\ FLt(x, img.nanHi))
    THEN <<NaN, NaN, NaN>>
    ELSE <<FAdd(img.c0, FAdd(FMul(img.gx, x), FMul(img.gy, y))), img.gx, img.gy>>

getInterpolatedElement33BiLin(img, x, y) == getInterpolatedElement33(img, x, y)

getInterpolatedElement31(img, x, y) == getInterpolatedElement33(img, x, y)[1]

(***************************************************************************)
(* enum ImmaturePointStatus, enum ResState                                 *)
(***************************************************************************)
IPS_GOOD          == "IPS_GOOD"
IPS_OOB           == "IPS_OOB"
IPS_OUTLIER       == "IPS_OUTLIER"
IPS_SKIPPED       == "IPS_SKIPPED"
IPS_BADCONDITION  == "IPS_BADCONDITION"
IPS_UNINITIALIZED == "IPS_UNINITIALIZED"

ResState_IN      == "IN"
ResState_OOB     == "OOB"
ResState_OUTLIER == "OUTLIER"

(***************************************************************************)
(* ImmaturePoint::ImmaturePoint.  A field the constructor does not set     *)
(* holds an indeterminate value, garbage.                                  *)
(***************************************************************************)
RECURSIVE ConstructLoop(_, _)
\* the body of the loop over the pattern, ptc the sample of the host image
ConstructStep(host, P, ptc) ==
    IF ~isfinite(ptc[1])
    THEN [P EXCEPT !.color[P.idx] = ptc[1], !.energyTH = NaN]
    ELSE ConstructLoop(host,
            [P EXCEPT !.idx = @ + 1,
                      !.color[P.idx] = ptc[1],
                      !.gradH = << FAdd(@[1], FMul(ptc[2], ptc[2])),
                                   FAdd(@[2], FMul(ptc[2], ptc[3])),
                                   FAdd(@[3], FMul(ptc[3], ptc[2])),
                                   FAdd(@[4], FMul(ptc[3], ptc[3])) >>,
                      !.weights[P.idx] =
                          sqrtf(FDiv(setting_outlierTHSumComponent,
                                     FAdd(setting_outlierTHSumComponent,
                                          FAdd(Sq(ptc[2]), Sq(ptc[3])))))])

\* the loop over the pattern; P holds the fields written so far and the loop
\* variable idx (patternP counts from 1 here)
ConstructLoop(host, P) ==
    IF P.idx > patternNum
    THEN [P EXCEPT !.energyTH =
                FMul(FMul(FromInt(patternNum), setting_outlierTH),
                     FMul(setting_overallEnergyTHWeight, setting_overallEnergyTHWeight)),
                   !.quality = FromInt(10000)]
    ELSE ConstructStep(host, P,
            getInterpolatedElement33BiLin(host.img,
                FromInt(host.u + patternP[P.idx][1]),
                FromInt(host.v + patternP[P.idx][2])))

\* the fields of an ImmaturePoint
Fields(P) ==
    [u |-> P.u, v |-> P.v, idepth_min |-> P.idepth_min, idepth_max |-> P.idepth_max,
     lastTraceStatus |-> P.lastTraceStatus, gradH |-> P.gradH, color |-> P.color,
     weights |-> P.weights, energyTH |-> P.energyTH, quality |-> P.quality,
     lastTraceUV |-> P.lastTraceUV, lastTracePixelInterval |-> P.lastTracePixelInterval]

ImmaturePoint(host, garbage) ==
    Fields(ConstructLoop(host,
        [idx |-> 1, u |-> FromInt(host.u), v |-> FromInt(host.v),
         idepth_min |-> Zero, idepth_max |-> NaN,
         lastTraceStatus |-> IPS_UNINITIALIZED,
         gradH |-> <<Zero, Zero, Zero, Zero>>,
         color |-> [i \in 1..patternNum |-> garbage],
         weights |-> [i \in 1..patternNum |-> garbage],
         energyTH |-> garbage, quality |-> garbage,
         lastTraceUV |-> <<garbage, garbage>>,
         lastTracePixelInterval |-> garbage]))

(***************************************************************************)
(* ImmaturePoint::traceOn.  P is the point (the record of its fields), f   *)
(* the call's arguments: [img: the frame's dI, KRKi: hostToFrame_KRKi,     *)
(* Kt: hostToFrame_Kt, aff: hostToFrame_affine].  The result is the point  *)
(* after the call, the status returned, the return statement taken and     *)
(* the locals numSteps, errorInPixel, bestU and bestV at the return (0     *)
(* when not assigned yet).  The statements follow from the last one to     *)
(* the first.                                                              *)
(***************************************************************************)
Invalid == <<FromInt(-1), FromInt(-1)>>

\* the writes to lastTraceUV and lastTracePixelInterval without the one to
\* lastTraceStatus
Return_KeepStatus(P, status, uv, interval, exit, L) ==
    [point |-> [P EXCEPT !.lastTraceUV = uv, !.lastTracePixelInterval = interval],
     ret |-> status, exit |-> exit, numSteps |-> L.numSteps,
     errorInPixel |-> L.errorInPixel, bestU |-> L.bestU, bestV |-> L.bestV]

\* return lastTraceStatus = status, after the writes to lastTraceUV and
\* lastTracePixelInterval
Return(P, status, uv, interval, exit, L) ==
    [point |-> [P EXCEPT !.lastTraceStatus = status, !.lastTraceUV = uv,
                         !.lastTracePixelInterval = interval],
     ret |-> status, exit |-> exit, numSteps |-> L.numSteps,
     errorInPixel |-> L.errorInPixel, bestU |-> L.bestU, bestV |-> L.bestV]

\* uu > 4 && vv > 4 && uu < wG[0] - 5 && vv < hG[0] - 5
InBounds(uu, vv) ==
    /\ FGt(uu, FromInt(4)) /\ FGt(vv, FromInt(4))
    /\ FLt(uu, FromInt(wG0 - 5)) /\ FLt(vv, FromInt(hG0 - 5))

\* Vec2f(uMax + uMin, vMax + vMin) * 0.5
MidPoint(L) == << FMul(FAdd(L.uMax, L.uMin), Half), FMul(FAdd(L.vMax, L.vMin), Half) >>

\* v^T * gradH * v
QuadForm(gradH, v) ==
    FAdd(FMul(v[1], FAdd(FMul(gradH[1], v[1]), FMul(gradH[2], v[2]))),
         FMul(v[2], FAdd(FMul(gradH[3], v[1]), FMul(gradH[4], v[2]))))

\* hw = fabs(residual) < setting_huberTH ? 1 : setting_huberTH / fabs(residual)
HuberWeight(residual) ==
    IF FLt(fabsf(residual), setting_huberTH) THEN One
    ELSE FDiv(setting_huberTH, fabsf(residual))

\* hostToFrame_affine[0] * color[idx] + hostToFrame_affine[1]
AffineColor(aff, c) == FAdd(FMul(aff[1], c), aff[2])

\* hw * residual * residual * (2 - hw)
HuberTerm(hw, residual) ==
    FMul(FMul(FMul(hw, residual), residual), FSub(FromInt(2), hw))

HuberEnergy(residual) == HuberTerm(HuberWeight(residual), residual)

\* weights[idx]*weights[idx]*hw*residual*residual*(2-hw)
WeightedEnergy(w, hw, residual) ==
    FMul(FMul(FMul(FMul(FMul(w, w), hw), residual), residual), FSub(FromInt(2), hw))

\* ---- set new interval (lines 419-444) ----
\* (pr[2] * x - pr[k]) / (hostToFrame_Kt[k] - hostToFrame_Kt[2] * x)
InvertProjection(pr, Kt, k, x) ==
    FDiv(FSub(FMul(pr[3], x), pr[k]), FSub(Kt[k], FMul(Kt[3], x)))

\* if (idepth_min > idepth_max) std::swap<float>(idepth_min, idepth_max);
SwapIfGreater(iv) == IF FGt(iv[1], iv[2]) THEN <<iv[2], iv[1]>> ELSE iv

\* <<idepth_min, idepth_max>> as stored in the point
NewInterval(pr, Kt, bestU, bestV, errorInPixel, dx, dy) ==
    SwapIfGreater(
        IF FGt(FMul(dx, dx), FMul(dy, dy))
        THEN << InvertProjection(pr, Kt, 1, FSub(bestU, FMul(errorInPixel, dx))),
                InvertProjection(pr, Kt, 1, FAdd(bestU, FMul(errorInPixel, dx))) >>
        ELSE << InvertProjection(pr, Kt, 2, FSub(bestV, FMul(errorInPixel, dy))),
                InvertProjection(pr, Kt, 2, FAdd(bestV, FMul(errorInPixel, dy))) >>)

\* lines 434-444 without the test idepth_max < 0
CheckInterval_Unsigned(P, L) ==
    IF ~isfinite(P.idepth_min) \/ ~isfinite(P.idepth_max)
    THEN Return(P, IPS_OUTLIER, Invalid, Zero, "outlier_interval", L)
    ELSE Return(P, IPS_GOOD, <<L.bestU, L.bestV>>, FMul(FromInt(2), L.errorInPixel),
                "good", L)

\* lines 434-444: the interval is stored in P
CheckInterval(P, L) ==
    IF ~isfinite(P.idepth_min) \/ ~isfinite(P.idepth_max) \/ FLt(P.idepth_max, Zero)
    THEN Return(P, IPS_OUTLIER, Invalid, Zero, "outlier_interval", L)
    ELSE Return(P, IPS_GOOD, <<L.bestU, L.bestV>>, FMul(FromInt(2), L.errorInPixel),
                "good", L)

SetInterval(P, L, iv) ==
    CheckInterval([P EXCEPT !.idepth_min = iv[1], !.idepth_max = iv[2]], L)

\* lines 398-416 with bestEnergy >= ... for !(bestEnergy < ...)
CheckEnergy_Ordered(P, f, L) ==
    IF FGe(L.bestEnergy, FMul(P.energyTH, setting_trace_extraSlackOnTH))
    THEN IF P.lastTraceStatus = IPS_OUTLIER
         THEN Return(P, IPS_OOB, Invalid, Zero, "outlier_energy", L)
         ELSE Return(P, IPS_OUTLIER, Invalid, Zero, "outlier_energy", L)
    ELSE SetInterval(P, L,
            NewInterval(L.pr, f.Kt, L.bestU, L.bestV, L.errorInPixel, L.dx, L.dy))

\* ---- detect energy-based outlier (lines 398-416) ----
CheckEnergy(P, f, L) ==
    IF ~FLt(L.bestEnergy, FMul(P.energyTH, setting_trace_extraSlackOnTH))
    THEN IF P.lastTraceStatus = IPS_OUTLIER
         THEN Return(P, IPS_OOB, Invalid, Zero, "outlier_energy", L)
         ELSE Return(P, IPS_OUTLIER, Invalid, Zero, "outlier_energy", L)
    ELSE SetInterval(P, L,
            NewInterval(L.pr, f.Kt, L.bestU, L.bestV, L.errorInPixel, L.dx, L.dy))

\* ---- do GN optimization (lines 335-395) ----
\* H += ...; b += ...; energy += ...
GNAdd(P, L, residual, dResdDist, hw) ==
    [idx |-> L.idx + 1,
     H |-> FAdd(L.H, FMul(FMul(hw, dResdDist), dResdDist)),
     b |-> FAdd(L.b, FMul(FMul(hw, residual), dResdDist)),
     energy |-> FAdd(L.energy, WeightedEnergy(P.weights[L.idx], hw, residual))] @@ L

GNResidual(P, L, residual, dResdDist) ==
    GNAdd(P, L, residual, dResdDist, HuberWeight(residual))

\* the body of the loop over the pattern, hitColor the sample at pattern pixel idx
GNTerm(P, f, L, hitColor) ==
    IF ~isfinite(hitColor[1])
    THEN [idx |-> L.idx + 1, energy |-> FAdd(L.energy, Norm(1, 5))] @@ L
    ELSE GNResidual(P, L, FSub(hitColor[1], AffineColor(f.aff, P.color[L.idx])),
                    FAdd(FMul(L.dx, hitColor[2]), FMul(L.dy, hitColor[3])))

RECURSIVE GNAccumulate(_, _, _)
\* for (int idx = 0; idx < patternNum; idx++) of one GN iteration
GNAccumulate(P, f, L) ==
    IF L.idx > patternNum THEN L
    ELSE GNAccumulate(P, f,
            GNTerm(P, f, L,
                getInterpolatedElement33(f.img,
                    FAdd(L.bestU, L.rotatetPattern[L.idx][1]),
                    FAdd(L.bestV, L.rotatetPattern[L.idx][2]))))

\* if (!std::isfinite(step)) step = 0;
GNFinite(step) == IF ~isfinite(step) THEN Zero ELSE step

\* if (step < -0.5) step = -0.5; else if (step > 0.5) step = 0.5;
GNClamp(step) ==
    GNFinite(IF FLt(step, FNeg(Half)) THEN FNeg(Half)
             ELSE IF FGt(step, Half) THEN Half ELSE step)

\* float step = -gnstepsize * b / H, clamped
GNStep(gnstepsize, b, H) == GNClamp(FDiv(FMul(FNeg(gnstepsize), b), H))

\* energy <= bestEnergy: go on from the new point
GNForward(L, step) ==
    [uBak |-> L.bestU, vBak |-> L.bestV, stepBack |-> step,
     bestU |-> FAdd(L.bestU, FMul(step, L.dx)),
     bestV |-> FAdd(L.bestV, FMul(step, L.dy)),
     bestEnergy |-> L.energy] @@ L

GNBackMove(L) ==
    [bestU |-> FAdd(L.uBak, FMul(L.stepBack, L.dx)),
     bestV |-> FAdd(L.vBak, FMul(L.stepBack, L.dy))] @@ L

\* energy > bestEnergy: do a smaller step from old point
GNBack(L) == GNBackMove([stepBack |-> FMul(L.stepBack, Half)] @@ L)

RECURSIVE GNLoop(_, _, _)
\* if (fabsf(stepBack) < setting_trace_GNThreshold) break;
GNNext(P, f, L) ==
    IF FLt(fabsf(L.stepBack), setting_trace_GNThreshold) THEN L
    ELSE GNLoop(P, f, [it |-> L.it + 1] @@ L)

GNUpdate(P, f, L) ==
    GNNext(P, f, IF FGt(L.energy, L.bestEnergy) THEN GNBack(L)
                 ELSE GNForward(L, GNStep(One, L.b, L.H)))

\* for (int it = 0; it < setting_trace_GNIterations; it++)
GNLoop(P, f, L) ==
    IF L.it >= setting_trace_GNIterations THEN L
    ELSE GNUpdate(P, f,
            GNAccumulate(P, f, [idx |-> 1, H |-> One, b |-> Zero, energy |-> Zero] @@ L))

GaussNewton(P, f, L) ==
    CheckEnergy(P, f,
        GNLoop(P, f,
            [uBak |-> L.bestU, vBak |-> L.bestV, stepBack |-> Zero,
             bestEnergy |-> IF setting_trace_GNIterations > 0 THEN Norm(1, 5)
                            ELSE L.bestEnergy,
             it |-> 0] @@ L))

\* ---- quality (lines 313-332) ----
\* quality = newQuality, whatever the two are
UpdateQuality_Always(quality, newQuality, numSteps) == newQuality

\* if (newQuality < quality || numSteps > 10) quality = newQuality;
UpdateQuality(quality, newQuality, numSteps) ==
    IF FLt(newQuality, quality) \/ numSteps > 10 THEN newQuality ELSE quality

Quality(P, f, L) ==
    GaussNewton([P EXCEPT !.quality =
                    UpdateQuality(P.quality, FDiv(L.secondBest, L.bestEnergy), L.numSteps)],
                f, L)

RECURSIVE SecondBest(_)
\* find best score outside a +-2px radius
SecondBest(L) ==
    IF L.i >= L.numSteps THEN L.secondBest
    ELSE SecondBest(
            [i |-> L.i + 1,
             secondBest |->
                IF /\ (L.i < L.bestIdx - setting_minTraceTestRadius
                         \/ L.i > L.bestIdx + setting_minTraceTestRadius)
                   /\ FLt(L.errors[L.i + 1], L.secondBest)
                THEN L.errors[L.i + 1] ELSE L.secondBest] @@ L)

AfterSearch(P, f, L) ==
    Quality(P, f,
        [secondBest |-> SecondBest([i |-> 0, secondBest |-> Norm(1, 10)] @@ L)] @@ L)

\* ---- do the discrete search (lines 273-310) ----
\* one pattern pixel of the energy of a step
PatchEnergy(hitColor, refColor) ==
    IF ~isfinite(hitColor) THEN Norm(1, 5) ELSE HuberEnergy(FSub(hitColor, refColor))

RECURSIVE StepEnergy(_, _, _)
\* for (int idx = 0; idx < patternNum; idx++) at (ptx, pty)
StepEnergy(P, f, L) ==
    IF L.idx > patternNum THEN L.energy
    ELSE StepEnergy(P, f,
            [idx |-> L.idx + 1,
             energy |-> FAdd(L.energy,
                PatchEnergy(
                    getInterpolatedElement31(f.img,
                        FAdd(L.ptx, L.rotatetPattern[L.idx][1]),
                        FAdd(L.pty, L.rotatetPattern[L.idx][2])),
                    AffineColor(f.aff, P.color[L.idx])))] @@ L)

\* if (energy < bestEnergy) { bestU = ptx; bestV = pty; bestEnergy = energy; bestIdx = i; }
RecordBest(L, energy) ==
    IF FLt(energy, L.bestEnergy)
    THEN [bestU |-> L.ptx, bestV |-> L.pty, bestEnergy |-> energy, bestIdx |-> L.i] @@ L
    ELSE L

\* errors[i] = energy; ptx += dx; pty += dy; i++
Advance(L, energy) ==
    [errors |-> Append(L.errors, energy),
     ptx |-> FAdd(L.ptx, L.dx), pty |-> FAdd(L.pty, L.dy), i |-> L.i + 1] @@ L

RECURSIVE DiscreteSearch(_, _, _)
SearchStep(P, f, L, energy) == DiscreteSearch(P, f, Advance(RecordBest(L, energy), energy))

\* for (int i = 0; i < numSteps; i++); errors[] is indexed from 1 here
DiscreteSearch(P, f, L) ==
    IF L.i >= L.numSteps THEN L
    ELSE SearchStep(P, f, L, StepEnergy(P, f, [idx |-> 1, energy |-> Zero] @@ L))

Search(P, f, L) ==
    AfterSearch(P, f,
        DiscreteSearch(P, f,
            [errors |-> <<>>, bestU |-> Zero, bestV |-> Zero, bestEnergy |-> Norm(1, 10),
             bestIdx |-> -1,
             numSteps |-> IF L.numSteps >= 100 THEN 99 ELSE L.numSteps,
             i |-> 0] @@ L))

\* ---- lines 227-270 ----
CheckDirection(P, f, L) ==
    IF ~isfinite(L.dx) \/ ~isfinite(L.dy)
    THEN Return(P, IPS_OOB, Invalid, Zero, "oob_dxdy", L)
    ELSE Search(P, f, L)

\* rotatetPattern[idx] = Rplane * Vec2f(patternP[idx][0], patternP[idx][1])
Rplane(KRKi, p) ==
    << FAdd(FMul(KRKi[1][1], FromInt(p[1])), FMul(KRKi[1][2], FromInt(p[2]))),
       FAdd(FMul(KRKi[2][1], FromInt(p[1])), FMul(KRKi[2][2], FromInt(p[2]))) >>

SearchStart(P, f, L) ==
    CheckDirection(P, f,
        [ptx |-> FSub(L.uMin, FMul(L.randShift, L.dx)),
         pty |-> FSub(L.vMin, FMul(L.randShift, L.dy)),
         rotatetPattern |-> [idx \in 1..patternNum |-> Rplane(f.KRKi, patternP[idx])]] @@ L)

\* float randShift = x - floorf(x), x = uMin * 1000
Fraction(x) == FSub(x, floorf(x))

SearchSetup(P, f, L) ==
    SearchStart(P, f,
        [numSteps |-> ToInt(FAdd(Norm(19999, -4), FDiv(L.dist, setting_trace_stepsize))),
         randShift |-> Fraction(FMul(L.uMin, FromInt(1000)))] @@ L)

\* if (dist > maxPixSearch) { uMax = ...; vMax = ...; dist = maxPixSearch; }
ClampDist(P, f, L) ==
    SearchSetup(P, f,
        IF FGt(L.dist, L.maxPixSearch)
        THEN [uMax |-> FAdd(L.uMin, FMul(L.maxPixSearch, L.dx)),
              vMax |-> FAdd(L.vMin, FMul(L.maxPixSearch, L.dy)),
              dist |-> L.maxPixSearch] @@ L
        ELSE L)

\* if (errorInPixel > 10) errorInPixel = 10;  dx /= dist;  dy /= dist;
StepDirection(P, f, L) ==
    ClampDist(P, f,
        [errorInPixel |-> IF FGt(L.errorInPixel, FromInt(10)) THEN FromInt(10)
                          ELSE L.errorInPixel,
         dx |-> FDiv(L.dx, L.dist), dy |-> FDiv(L.dy, L.dist)] @@ L)

\* ---- compute error-bounds on result in pixel (lines 211-225) ----
\* the test of line 219 without std::isfinite(idepth_max)
BadCondition_AnyInterval(errorInPixel, dist, idepth_max) ==
    FGt(FMul(errorInPixel, setting_trace_minImprovementFactor), dist)

\* errorInPixel * setting_trace_minImprovementFactor > dist && std::isfinite(idepth_max)
BadCondition(errorInPixel, dist, idepth_max) ==
    /\ FGt(FMul(errorInPixel, setting_trace_minImprovementFactor), dist)
    /\ isfinite(idepth_max)

CheckCondition(P, f, L) ==
    IF BadCondition(L.errorInPixel, L.dist, P.idepth_max)
    THEN Return(P, IPS_BADCONDITION, MidPoint(L), L.dist, "badcondition", L)
    ELSE StepDirection(P, f, L)

ErrorBound(P, f, L) ==
    CheckCondition(P, f,
        [errorInPixel |->
            FAdd(Norm(2, -1), FDiv(FMul(Norm(2, -1), FAdd(L.a, L.b)), L.a))] @@ L)

ErrorBoundAB(P, f, L) ==
    ErrorBound(P, f,
        [a |-> QuadForm(P.gradH, <<L.dx, L.dy>>),
         b |-> QuadForm(P.gradH, <<L.dy, FNeg(L.dx)>>)] @@ L)

\* ---- set OOB if scale change too big (lines 202-208) ----
CheckScale(P, f, L) ==
    IF ~(FLt(P.idepth_min, Zero)
           \/ (FGt(L.ptpMin[3], Norm(75, -2)) /\ FLt(L.ptpMin[3], Norm(15, -1))))
    THEN Return(P, IPS_OOB, Invalid, Zero, "oob_scale", L)
    ELSE ErrorBoundAB(P, f,
            [dx |-> FMul(setting_trace_stepsize, FSub(L.uMax, L.uMin)),
             dy |-> FMul(setting_trace_stepsize, FSub(L.vMax, L.vMin))] @@ L)

\* ---- idepth_max not finite (lines 174-199) ----
CheckCoarse(P, f, L) ==
    IF ~InBounds(L.uMax, L.vMax)
    THEN Return(P, IPS_OOB, Invalid, Zero, "oob_coarse", L)
    ELSE CheckScale(P, f, L)

\* set to [setting_maxPixSearch]
CoarseMax(P, f, L) ==
    CheckCoarse(P, f,
        [uMax |-> FAdd(L.uMin, FMul(FMul(L.dist, L.dx), L.d)),
         vMax |-> FAdd(L.vMin, FMul(FMul(L.dist, L.dy), L.d))] @@ L)

DirectionNorm(P, f, L) ==
    CoarseMax(P, f, [d |-> FDiv(One, sqrtf(FAdd(Sq(L.dx), Sq(L.dy))))] @@ L)

Direction(P, f, L) ==
    DirectionNorm(P, f, [dx |-> FSub(L.uMax, L.uMin), dy |-> FSub(L.vMax, L.vMin)] @@ L)

\* project to arbitrary depth to get direction
ProjectArbitrary(P, f, L) ==
    Direction(P, f,
        [uMax |-> FDiv(L.ptpMax[1], L.ptpMax[3]),
         vMax |-> FDiv(L.ptpMax[2], L.ptpMax[3])] @@ L)

\* ---- idepth_max finite (lines 147-173) ----
\* check their distance
CheckDistance(P, f, L) ==
    IF FLt(L.dist, setting_trace_slackInterval)
    THEN Return(P, IPS_SKIPPED, MidPoint(L), L.dist, "skipped", L)
    ELSE CheckScale(P, f, L)

CheckMax(P, f, L) ==
    IF ~InBounds(L.uMax, L.vMax)
    THEN Return(P, IPS_OOB, Invalid, Zero, "oob_max", L)
    ELSE CheckDistance(P, f,
            [dist |-> sqrtf(FAdd(Sq(FSub(L.uMin, L.uMax)), Sq(FSub(L.vMin, L.vMax))))] @@ L)

ProjectMax(P, f, L) ==
    CheckMax(P, f,
        [uMax |-> FDiv(L.ptpMax[1], L.ptpMax[3]),
         vMax |-> FDiv(L.ptpMax[2], L.ptpMax[3])] @@ L)

\* ---- project min and max, return if one of them is OOB (lines 118-139) ----
CheckMin(P, f, L) ==
    IF ~InBounds(L.uMin, L.vMin)
    THEN Return(P, IPS_OOB, Invalid, Zero, "oob_min", L)
    ELSE IF isfinite(P.idepth_max)
    THEN ProjectMax(P, f, [ptpMax |-> VecAdd3(L.pr, VecScale3(f.Kt, P.idepth_max))] @@ L)
    ELSE ProjectArbitrary(P, f,
            [dist |-> L.maxPixSearch,
             ptpMax |-> VecAdd3(L.pr, VecScale3(f.Kt, Norm(1, -2)))] @@ L)

ProjectMin(P, f, L) ==
    CheckMin(P, f,
        [uMin |-> FDiv(L.ptpMin[1], L.ptpMin[3]),
         vMin |-> FDiv(L.ptpMin[2], L.ptpMin[3])] @@ L)

Project(P, f, L) ==
    ProjectMin(P, f, [ptpMin |-> VecAdd3(L.pr, VecScale3(f.Kt, P.idepth_min))] @@ L)

\* the body of traceOn after line 92
TraceSearch(P, f) ==
    Project(P, f,
        [maxPixSearch |-> FMul(FromInt(wG0 + hG0), setting_maxPixSearch),
         pr |-> MatVec3(f.KRKi, <<P.u, P.v, One>>),
         numSteps |-> 0, errorInPixel |-> Zero, bestU |-> Zero, bestV |-> Zero])

\* traceOn without the return of line 92
traceOn_Recompute(P, f) == TraceSearch(P, f)

\* ImmaturePoint::traceOn
traceOn(P, f) ==
    IF P.lastTraceStatus = IPS_OOB
    THEN [point |-> P, ret |-> P.lastTraceStatus, exit |-> "already_oob", numSteps |-> 0,
          errorInPixel |-> Zero, bestU |-> Zero, bestV |-> Zero]
    ELSE TraceSearch(P, f)

(***************************************************************************)
(* FullSystem/ResidualProjections.h: projectPoint (both overloads) and     *)
(* derive_idepth.  T is the target frame with host->targetPrecalc of it:   *)
(* [img, PRE_KRKiTll, PRE_KtTll, PRE_RTll, PRE_tTll, PRE_aff_mode];        *)
(* HCalib is [fxl, fyl, cxl, cyl, fxli, fyli].                             *)
(***************************************************************************)
\* Ku > 1.1f && Kv > 1.1f && Ku < wM3G && Kv < hM3G
InImage(Ku, Kv) ==
    /\ FGt(Ku, Norm(11, -1)) /\ FGt(Kv, Norm(11, -1))
    /\ FLt(Ku, FromInt(wG0 - 3)) /\ FLt(Kv, FromInt(hG0 - 3))

ProjectedPixel(Ku, Kv) == [ok |-> InImage(Ku, Kv), Ku |-> Ku, Kv |-> Kv]

Dehomogenize(ptp) == ProjectedPixel(FDiv(ptp[1], ptp[3]), FDiv(ptp[2], ptp[3]))

\* projectPoint(u_pt, v_pt, idepth, KRKi, Kt, Ku, Kv)
projectPoint7(u_pt, v_pt, idepth, KRKi, Kt) ==
    Dehomogenize(VecAdd3(MatVec3(KRKi, <<u_pt, v_pt, One>>), VecScale3(Kt, idepth)))

Reprojected(drescale, uu, vv, Ku, Kv) ==
    [ok |-> FGt(drescale, Zero) /\ InImage(Ku, Kv),
     drescale |-> drescale, u |-> uu, v |-> vv, Ku |-> Ku, Kv |-> Kv]

\* Ku = u * fxl + cxl;  Kv = v * fyl + cyl
ReprojectPixel(HCalib, drescale, uu, vv) ==
    Reprojected(drescale, uu, vv, FAdd(FMul(uu, HCalib.fxl), HCalib.cxl),
                FAdd(FMul(vv, HCalib.fyl), HCalib.cyl))

\* u = ptp[0] * drescale;  v = ptp[1] * drescale
ReprojectScaled(HCalib, ptp, drescale) ==
    ReprojectPixel(HCalib, drescale, FMul(ptp[1], drescale), FMul(ptp[2], drescale))

\* drescale = 1.0f / ptp[2]
Reproject(HCalib, ptp) == ReprojectScaled(HCalib, ptp, FDiv(One, ptp[3]))

\* projectPoint(u_pt, v_pt, idepth, dx, dy, HCalib, R, t, drescale, u, v, Ku, Kv,
\*              KliP, new_idepth)
projectPoint15(u_pt, v_pt, idepth, dx, dy, HCalib, R, t) ==
    Reproject(HCalib,
        VecAdd3(MatVec3(R, << FMul(FSub(FAdd(u_pt, FromInt(dx)), HCalib.cxl), HCalib.fxli),
                              FMul(FSub(FAdd(v_pt, FromInt(dy)), HCalib.cyl), HCalib.fyli),
                              One >>),
                VecScale3(t, idepth)))

\* (dxInterp*drescale * (t[0]-t[2]*u) + dyInterp*drescale * (t[1]-t[2]*v)) * SCALE_IDEPTH
derive_idepth(t, uu, vv, dxInterp, dyInterp, drescale) ==
    FAdd(FMul(FMul(dxInterp, drescale), FSub(t[1], FMul(t[3], uu))),
         FMul(FMul(dyInterp, drescale), FSub(t[2], FMul(t[3], vv))))

(***************************************************************************)
(* ImmaturePoint::getdPixdd                                                *)
(***************************************************************************)
\* drescale * sqrtf(dxdd * dxdd + dydd * dydd)
PixelNorm(drescale, dxdd, dydd) == FMul(drescale, sqrtf(FAdd(Sq(dxdd), Sq(dydd))))

PixelDerivative(HCalib, t, pp) ==
    PixelNorm(pp.drescale,
              FMul(FSub(t[1], FMul(t[3], pp.u)), HCalib.fxl),
              FMul(FSub(t[2], FMul(t[3], pp.v)), HCalib.fyl))

getdPixdd(P, HCalib, T, idepth) ==
    PixelDerivative(HCalib, T.PRE_tTll,
        projectPoint15(P.u, P.v, idepth, 0, 0, HCalib, T.PRE_RTll, T.PRE_tTll))

(***************************************************************************)
(* ImmaturePoint::calcResidual                                             *)
(***************************************************************************)
\* calcResidual without the clamp of line 494
ClampEnergy_None(energyLeft, energyTH, outlierTHSlack) == energyLeft

\* if (energyLeft > energyTH * outlierTHSlack) energyLeft = energyTH * outlierTHSlack;
ClampEnergy(energyLeft, energyTH, outlierTHSlack) ==
    IF FGt(energyLeft, FMul(energyTH, outlierTHSlack))
    THEN FMul(energyTH, outlierTHSlack) ELSE energyLeft

\* the energy of one pattern pixel
ResidualEnergy(w, residual) == WeightedEnergy(w, HuberWeight(residual), residual)

RECURSIVE calcResidualLoop(_, _, _, _, _)
calcSampled(E, P, T, outlierTHSlack, idepth, hitColor) ==
    IF ~isfinite(hitColor[1]) THEN Norm(1, 10)
    ELSE calcResidualLoop(
            [idx |-> E.idx + 1,
             energyLeft |-> FAdd(E.energyLeft,
                ResidualEnergy(P.weights[E.idx],
                    FSub(hitColor[1], AffineColor(T.PRE_aff_mode, P.color[E.idx]))))],
            P, T, outlierTHSlack, idepth)

calcProjected(E, P, T, outlierTHSlack, idepth, pp) ==
    IF ~pp.ok THEN Norm(1, 10)
    ELSE calcSampled(E, P, T, outlierTHSlack, idepth,
                     getInterpolatedElement33(T.img, pp.Ku, pp.Kv))

\* for (int idx = 0; idx < patternNum; idx++) of calcResidual, then the clamp;
\* E holds idx and energyLeft
calcResidualLoop(E, P, T, outlierTHSlack, idepth) ==
    IF E.idx > patternNum THEN ClampEnergy(E.energyLeft, P.energyTH, outlierTHSlack)
    ELSE calcProjected(E, P, T, outlierTHSlack, idepth,
            projectPoint7(FAdd(P.u, FromInt(patternP[E.idx][1])),
                          FAdd(P.v, FromInt(patternP[E.idx][2])),
                          idepth, T.PRE_KRKiTll, T.PRE_KtTll))

calcResidual(P, T, outlierTHSlack, idepth) ==
    calcResidualLoop([idx |-> 1, energyLeft |-> Zero], P, T, outlierTHSlack, idepth)

(***************************************************************************)
(* ImmaturePoint::linearizeResidual.  The result holds tmpRes and the      *)
(* caller's Hdd and bd (passed by reference) after the call, the value     *)
(* returned and the return statement taken.                                *)
(***************************************************************************)
\* Hdd += (hw * d_idepth) * d_idepth;  bd += (hw * residual) * d_idepth;
AddHessian(acc, hw, residual, d_idepth) ==
    [idx |-> acc.idx + 1,
     Hdd |-> FAdd(acc.Hdd, FMul(FMul(hw, d_idepth), d_idepth)),
     bd  |-> FAdd(acc.bd, FMul(FMul(hw, residual), d_idepth))] @@ acc

\* energyLeft += ...;  hw *= weights[idx] * weights[idx];  Hdd += ...;  bd += ...
Accumulate(acc, w, hw, residual, d_idepth) ==
    AddHessian([energyLeft |-> FAdd(acc.energyLeft, WeightedEnergy(w, hw, residual))] @@ acc,
               FMul(hw, FMul(w, w)), residual, d_idepth)

\* a failure exit of linearizeResidual: state_NewState = OOB; return state_energy
FailureExit(tmpRes, acc) ==
    [tmpRes |-> [tmpRes EXCEPT !.state_NewState = ResState_OOB],
     Hdd |-> acc.Hdd, bd |-> acc.bd, ret |-> tmpRes.state_energy, exit |-> "oob"]

\* tmpRes->state_NewEnergy = energyLeft; return energyLeft;
Store(tmpRes, acc, NewState, energyLeft) ==
    [tmpRes |-> [tmpRes EXCEPT !.state_NewState = NewState,
                               !.state_NewEnergy = energyLeft],
     Hdd |-> acc.Hdd, bd |-> acc.bd, ret |-> energyLeft, exit |-> "done"]

\* lines 579-587 without the test of line 579
Classify_AlwaysIn(tmpRes, acc, energyTH, outlierTHSlack) ==
    Store(tmpRes, acc, ResState_IN, acc.energyLeft)

\* lines 579-587: clamp and classify
Classify(tmpRes, acc, energyTH, outlierTHSlack) ==
    IF FGt(acc.energyLeft, FMul(energyTH, outlierTHSlack))
    THEN Store(tmpRes, acc, ResState_OUTLIER, FMul(energyTH, outlierTHSlack))
    ELSE Store(tmpRes, acc, ResState_IN, acc.energyLeft)

RECURSIVE linearizeLoop(_, _, _, _, _, _, _)
linearizeResidualOf(acc, P, HCalib, T, outlierTHSlack, tmpRes, idepth, pp, hitColor, residual) ==
    linearizeLoop(
        Accumulate(acc, P.weights[acc.idx], HuberWeight(residual), residual,
            derive_idepth(T.PRE_tTll, pp.u, pp.v, FMul(hitColor[2], HCalib.fxl),
                          FMul(hitColor[3], HCalib.fyl), pp.drescale)),
        P, HCalib, T, outlierTHSlack, tmpRes, idepth)

linearizeSampled(acc, P, HCalib, T, outlierTHSlack, tmpRes, idepth, pp, hitColor) ==
    IF ~isfinite(hitColor[1]) THEN FailureExit(tmpRes, acc)
    ELSE linearizeResidualOf(acc, P, HCalib, T, outlierTHSlack, tmpRes, idepth, pp, hitColor,
            FSub(hitColor[1], AffineColor(T.PRE_aff_mode, P.color[acc.idx])))

linearizeProjected(acc, P, HCalib, T, outlierTHSlack, tmpRes, idepth, pp) ==
    IF ~pp.ok THEN FailureExit(tmpRes, acc)
    ELSE linearizeSampled(acc, P, HCalib, T, outlierTHSlack, tmpRes, idepth, pp,
                          getInterpolatedElement33(T.img, pp.Ku, pp.Kv))

\* for (int idx = 0; idx < patternNum; idx++) of linearizeResidual; acc holds
\* idx, energyLeft and the caller's Hdd and bd
linearizeLoop(acc, P, HCalib, T, outlierTHSlack, tmpRes, idepth) ==
    IF acc.idx > patternNum THEN Classify(tmpRes, acc, P.energyTH, outlierTHSlack)
    ELSE linearizeProjected(acc, P, HCalib, T, outlierTHSlack, tmpRes, idepth,
            projectPoint15(P.u, P.v, idepth, patternP[acc.idx][1], patternP[acc.idx][2],
                           HCalib, T.PRE_RTll, T.PRE_tTll))

\* linearizeResidual without the return of lines 509-512
linearizeResidual_Recompute(P, HCalib, T, outlierTHSlack, tmpRes, Hdd, bd, idepth) ==
    linearizeLoop([idx |-> 1, energyLeft |-> Zero, Hdd |-> Hdd, bd |-> bd],
                  P, HCalib, T, outlierTHSlack, tmpRes, idepth)

linearizeResidual(P, HCalib, T, outlierTHSlack, tmpRes, Hdd, bd, idepth) ==
    IF tmpRes.state_state = ResState_OOB
    THEN [tmpRes |-> [tmpRes EXCEPT !.state_NewState = ResState_OOB],
          Hdd |-> Hdd, bd |-> bd, ret |-> tmpRes.state_energy, exit |-> "sticky"]
    ELSE linearizeLoop([idx |-> 1, energyLeft |-> Zero, Hdd |-> Hdd, bd |-> bd],
                       P, HCalib, T, outlierTHSlack, tmpRes, idepth)

(***************************************************************************)
(* The frames, transforms and depths the operations are called with        *)
(***************************************************************************)
MaxCalls == 3

Identity == << <<One, Zero, Zero>>, <<Zero, One, Zero>>, <<Zero, Zero, One>> >>
\* K * R * K^-1 of a frame that zooms by z (R = I / z), shifted by (sx, sy) pixels
Zoom(z, sx, sy) == << <<One, Zero, sx>>, <<Zero, One, sy>>, <<Zero, Zero, z>> >>

Ramp(c0, gx, gy) == [c0 |-> c0, gx |-> gx, gy |-> gy, nanLo |-> Zero, nanHi |-> Zero]
RampWithHole(c0, gx, gy, lo, hi) ==
    [c0 |-> c0, gx |-> gx, gy |-> gy, nanLo |-> lo, nanHi |-> hi]

\* the host frame: intensity 20 + 2x; the point is selected at (50, 50)
Hosts == { [u |-> 50, v |-> 50, img |-> Ramp(FromInt(20), FromInt(2), Zero)] }

\* host frames whose image is non-finite in a column of the pattern of the
\* point selected at (50, 50): the column of the first pattern pixel, (50, 48),
\* and the column of the sixth, (52, 50)
AbortedHosts ==
    { [u |-> 50, v |-> 50,
       img |-> RampWithHole(FromInt(20), FromInt(2), Zero, FromInt(50), FromInt(51))],
      [u |-> 50, v |-> 50,
       img |-> RampWithHole(FromInt(20), FromInt(2), Zero, FromInt(52), FromInt(53))] }

\* what an uninitialized float may hold
Garbage == {Zero, NaN}

Frame(img, KRKi, Kt) == [img |-> img, KRKi |-> KRKi, Kt |-> Kt, aff |-> <<One, Zero>>]

\* the target frames of traceOn, with the host-to-frame transforms
Frames ==
    { \* translation along x; the patch is found 4.3 px along the epipolar line
      Frame(Ramp(Norm(114, -1), FromInt(2), Zero), Identity, <<FromInt(10), Zero, Zero>>),
      \* the same motion; the patch is found 2 px behind the point at infinity
      Frame(Ramp(FromInt(24), FromInt(2), Zero), Identity, <<FromInt(10), Zero, Zero>>),
      \* the same motion; a uniform image that does not match the patch
      Frame(Ramp(FromInt(200), Zero, Zero), Identity, <<FromInt(10), Zero, Zero>>),
      \* translation along y: the epipolar line runs across the gradient
      Frame(Ramp(FromInt(20), FromInt(2), Zero), Identity, <<Zero, FromInt(30), Zero>>),
      \* a wide baseline
      Frame(Ramp(FromInt(-240), FromInt(2), Zero), Identity, <<FromInt(330), Zero, Zero>>),
      \* the point projects to pixel (2, 2)
      Frame(Ramp(FromInt(20), FromInt(2), Zero),
            Zoom(One, FromInt(-48), FromInt(-48)), <<FromInt(10), Zero, Zero>>),
      \* the frame sees the point at twice the scale
      Frame(Ramp(FromInt(20), FromInt(2), Zero),
            << <<FromInt(2), Zero, Zero>>, <<Zero, FromInt(2), Zero>>,
               <<Zero, Zero, FromInt(2)>> >>,
            <<FromInt(10), Zero, Zero>>) }

\* CalibHessian: fxl, fyl, cxl, cyl and the inverses fxli, fyli
HCalib == [fxl |-> FromInt(100), fyl |-> FromInt(100), cxl |-> FromInt(100),
           cyl |-> FromInt(100), fxli |-> Norm(1, -2), fyli |-> Norm(1, -2)]

\* tmpRes->target and host->targetPrecalc[target->idx]: translation 0.1 along x,
\* no rotation; the image is non-finite in the columns 120 <= x < 130
Target ==
    [img |-> RampWithHole(Norm(114, -1), FromInt(2), Zero, FromInt(120), FromInt(130)),
     PRE_KRKiTll |-> Identity, PRE_KtTll |-> <<FromInt(10), Zero, Zero>>,
     PRE_RTll |-> Identity, PRE_tTll |-> <<Norm(1, -1), Zero, Zero>>,
     PRE_aff_mode |-> <<One, Zero>>]

\* <<idepth, outlierTHSlack>> of calcResidual: a depth near the match, a depth
\* off the match with and without slack, a depth whose third pattern pixel
\* samples the non-finite columns, a depth whose third pattern pixel leaves
\* the image
ResidualInputs ==
    { <<Norm(4, -1), One>>, <<FromInt(2), One>>, <<FromInt(2), FromInt(1000)>>,
      <<Norm(695, -2), FromInt(1000)>>, <<Norm(146, -1), One>> }

\* <<idepth, outlierTHSlack>> of linearizeResidual
LinearizeInputs ==
    { <<Norm(4, -1), One>>, <<FromInt(2), One>>,
      <<Norm(695, -2), FromInt(1000)>>, <<Norm(146, -1), One>> }

\* idepth of getdPixdd
DepthInputs == { Norm(4, -1) }

\* the frames and depths of the calls that interleave traceOn with the
\* residual operations: the frame on which the patch is found and the uniform
\* frame; a depth near the match and the depth whose third pattern pixel
\* leaves the image
LifetimeFrames ==
    { Frame(Ramp(Norm(114, -1), FromInt(2), Zero), Identity, <<FromInt(10), Zero, Zero>>),
      Frame(Ramp(FromInt(200), Zero, Zero), Identity, <<FromInt(10), Zero, Zero>>) }

LifetimeInputs == { <<Norm(4, -1), One>>, <<Norm(146, -1), One>> }

(***************************************************************************)
(* State                                                                   *)
(***************************************************************************)
VARIABLES
    point,    \* the ImmaturePoint
    tmpRes,   \* the ImmaturePointTemporaryResidual of the point and Target
    Hdd, bd,  \* the caller's accumulators, passed to linearizeResidual by reference
    energies, \* <<idepth, outlierTHSlack, energy>> of the calcResidual calls so far
    call,     \* the last call: operation, arguments, result, and the state before it
    ncalls    \* number of calls so far

vars == <<point, tmpRes, Hdd, bd, energies, call, ncalls>>

\* the state a call starts from
Before == [point |-> point, tmpRes |-> tmpRes, Hdd |-> Hdd, bd |-> bd,
           energies |-> energies]

\* a call of traceOn with arguments f that returned r
TraceCall(f, r) ==
    [op |-> "traceOn", args |-> f, ret |-> r.ret, exit |-> r.exit,
     numSteps |-> r.numSteps, errorInPixel |-> r.errorInPixel,
     bestU |-> r.bestU, bestV |-> r.bestV, before |-> Before]

\* a call of op with arguments in that returned value by the return statement exit
ResidualCall(op, in, value, exit) ==
    [op |-> op, args |-> in, value |-> value, exit |-> exit, before |-> Before]

\* the ImmaturePointTemporaryResidual as its owner sets it up
TemporaryResidual ==
    [state_state |-> ResState_IN, state_NewState |-> ResState_OUTLIER,
     state_energy |-> Zero, state_NewEnergy |-> Zero]

\* construction of the point (a point whose energyTH is not finite is dropped
\* by the caller); the caller's set-up of the candidate residual and of its
\* accumulators
Init ==
    /\ \E host \in Hosts, garbage \in Garbage : point = ImmaturePoint(host, garbage)
    /\ isfinite(point.energyTH)
    /\ tmpRes = TemporaryResidual
    /\ Hdd = Zero
    /\ bd = Zero
    /\ energies = {}
    /\ call = [op |-> "none"]
    /\ ncalls = 0

\* construction of a point on a host frame of AbortedHosts
InitAborted ==
    /\ \E host \in AbortedHosts, garbage \in Garbage : point = ImmaturePoint(host, garbage)
    /\ tmpRes = TemporaryResidual
    /\ Hdd = Zero
    /\ bd = Zero
    /\ energies = {}
    /\ call = [op |-> "none"]
    /\ ncalls = 0

(***************************************************************************)
(* Operations                                                              *)
(***************************************************************************)
\* r is what traceOn returns and leaves in the point
Traced(f, r) ==
    /\ point' = r.point
    /\ call' = TraceCall(f, r)
    /\ ncalls' = ncalls + 1
    /\ UNCHANGED <<tmpRes, Hdd, bd, energies>>

TraceOn(f) ==
    /\ ncalls < MaxCalls
    /\ Traced(f, traceOn(point, f))

\* a calcResidual that stores its energy as linearizeResidual does
Calculated_Storing(in, energy) ==
    /\ call' = ResidualCall("calcResidual", in, energy, "return")
    /\ energies' = energies \cup {<<in[1], in[2], energy>>}
    /\ ncalls' = ncalls + 1
    /\ tmpRes' = [tmpRes EXCEPT !.state_NewEnergy = energy]
    /\ UNCHANGED <<point, Hdd, bd>>

\* energy is what calcResidual returns
Calculated(in, energy) ==
    /\ call' = ResidualCall("calcResidual", in, energy, "return")
    /\ energies' = energies \cup {<<in[1], in[2], energy>>}
    /\ ncalls' = ncalls + 1
    /\ UNCHANGED <<point, tmpRes, Hdd, bd>>

CalcResidual(in) ==
    /\ ncalls < MaxCalls
    /\ Calculated(in, calcResidual(point, Target, in[2], in[1]))

GetdPixdd(idepth) ==
    /\ ncalls < MaxCalls
    /\ call' = ResidualCall("getdPixdd", idepth,
                            getdPixdd(point, HCalib, Target, idepth), "return")
    /\ ncalls' = ncalls + 1
    /\ UNCHANGED <<point, tmpRes, Hdd, bd, energies>>

\* r is what linearizeResidual returns and leaves in tmpRes, Hdd and bd
Linearized(in, r) ==
    /\ tmpRes' = r.tmpRes
    /\ Hdd' = r.Hdd
    /\ bd' = r.bd
    /\ call' = ResidualCall("linearizeResidual", in, r.ret, r.exit)
    /\ ncalls' = ncalls + 1
    /\ UNCHANGED <<point, energies>>

LinearizeResidual(in) ==
    /\ ncalls < MaxCalls
    /\ Linearized(in, linearizeResidual(point, HCalib, Target, in[2], tmpRes, Hdd, bd, in[1]))

\* the caller ends a round: pending state and energy become current, the
\* accumulators start again from 0
Commit ==
    /\ ncalls < MaxCalls
    /\ tmpRes' = [tmpRes EXCEPT !.state_state = tmpRes.state_NewState,
                                !.state_energy = tmpRes.state_NewEnergy]
    /\ Hdd' = Zero
    /\ bd' = Zero
    /\ call' = ResidualCall("commit", <<>>, Zero, "return")
    /\ ncalls' = ncalls + 1
    /\ UNCHANGED <<point, energies>>

NextTrace == \E f \in Frames : TraceOn(f)

NextResidual ==
    \/ \E in \in ResidualInputs : CalcResidual(in)
    \/ \E in \in LinearizeInputs : LinearizeResidual(in)
    \/ \E idepth \in DepthInputs : GetdPixdd(idepth)
    \/ Commit

Next == NextTrace \/ NextResidual

\* the search alone, the residual functions alone, and every operation
\* traceOn interleaved with the residual operations on the same point
NextLifetime ==
    \/ \E f \in LifetimeFrames : TraceOn(f)
    \/ \E in \in LifetimeInputs : CalcResidual(in)
    \/ \E in \in LifetimeInputs : LinearizeResidual(in)
    \/ \E idepth \in DepthInputs : GetdPixdd(idepth)
    \/ Commit

SpecLifetime == Init /\ [][NextLifetime]_vars

\* traceOn on a point whose construction was aborted
SpecAborted == InitAborted /\ [][NextTrace]_vars

SpecTrace    == Init /\ [][NextTrace]_vars
SpecResidual == Init /\ [][NextResidual]_vars
Spec         == Init /\ [][Next]_vars

(***************************************************************************)
(* Properties of traceOn, checked under SpecTrace                          *)
(***************************************************************************)
Traces == call.op = "traceOn"

\* the pixel of a homogeneous point
Pixel(ptp) == <<FDiv(ptp[1], ptp[3]), FDiv(ptp[2], ptp[3])>>

\* the projection of point P at inverse depth idepth into the frame of f
Projection(P, f, idepth) ==
    VecAdd3(MatVec3(f.KRKi, <<P.u, P.v, One>>), VecScale3(f.Kt, idepth))

PixelInBounds(uv) == InBounds(uv[1], uv[2])

PixelDistance(p, q) == sqrtf(FAdd(Sq(FSub(p[1], q[1])), Sq(FSub(p[2], q[2]))))

PixelMidPoint(p, q) == <<FMul(FAdd(q[1], p[1]), Half), FMul(FAdd(q[2], p[2]), Half)>>

SameInterval(P, Q) == P.idepth_min = Q.idepth_min /\ P.idepth_max = Q.idepth_max

\* C1: once lastTraceStatus is OOB, a traceOn call returns OOB and leaves
\* lastTraceStatus, idepth_min, idepth_max, quality, lastTraceUV,
\* lastTracePixelInterval and energyTH as they were before the call.
C1_OOBAbsorbing ==
    (Traces /\ call.before.point.lastTraceStatus = IPS_OOB) =>
        /\ call.ret = IPS_OOB
        /\ point.lastTraceStatus = IPS_OOB
        /\ SameInterval(point, call.before.point)
        /\ point.quality = call.before.point.quality
        /\ point.lastTraceUV = call.before.point.lastTraceUV
        /\ point.lastTracePixelInterval = call.before.point.lastTracePixelInterval
        /\ point.energyTH = call.before.point.energyTH

\* a traceOn call on a point that is OOB, with a frame in which a point that
\* is not OOB is traced: the point went OOB on leaving the image, the frame is
\* one that gave it another status before
C1_Witness ==
    /\ Traces
    /\ call.before.point.lastTraceStatus = IPS_OOB
    /\ traceOn_Recompute(call.before.point, call.args).ret # IPS_OOB

\* C2: no two consecutive traceOn calls on one point both return OUTLIER: a
\* call that reaches an outlier verdict on a point whose last status is
\* OUTLIER returns OOB.
C2_OutlierEscalates ==
    (Traces /\ call.before.point.lastTraceStatus = IPS_OUTLIER) =>
        /\ call.exit \in {"outlier_energy", "outlier_interval"} => call.ret = IPS_OOB
        /\ call.ret # IPS_OUTLIER

\* C3: after a traceOn call that returns GOOD the stored interval is finite,
\* ordered and has a non-negative upper bound; lastTracePixelInterval is
\* 2 * errorInPixel and lastTraceUV is the refined pixel, not (-1, -1).
C3_GoodInterval ==
    (Traces /\ call.ret = IPS_GOOD) =>
        /\ isfinite(point.idepth_min) /\ isfinite(point.idepth_max)
        /\ FLe(point.idepth_min, point.idepth_max)
        /\ FGe(point.idepth_max, Zero)
        /\ point.lastTracePixelInterval = FMul(FromInt(2), call.errorInPixel)
        /\ point.lastTraceUV = <<call.bestU, call.bestV>>
        /\ point.lastTraceUV # Invalid

\* a traceOn call that returned GOOD and moved both ends of the interval
C3_Witness ==
    /\ Traces /\ call.ret = IPS_GOOD
    /\ point.idepth_min # call.before.point.idepth_min
    /\ point.idepth_max # call.before.point.idepth_max

\* the return statements of traceOn before the discrete search
EarlyExits == {"already_oob", "oob_min", "oob_max", "oob_coarse", "oob_scale",
               "oob_dxdy", "skipped", "badcondition"}

\* C4: quality is never negative; a traceOn call leaves quality greater than
\* before only if its number of discrete search steps exceeded 10; a call that
\* returns before the discrete search leaves quality unchanged.
C4_QualityMonotone ==
    /\ ~FLt(point.quality, Zero)
    /\ (Traces /\ FGt(point.quality, call.before.point.quality)) => call.numSteps > 10
    /\ (Traces /\ call.exit \in EarlyExits) => point.quality = call.before.point.quality

\* a traceOn call of more than 10 search steps that raised quality
C4_Witness ==
    /\ Traces /\ call.numSteps > 10
    /\ FGt(point.quality, call.before.point.quality)

\* the depth scale z of the min-depth projection is outside [0.75, 1.5]
ScaleOutside(z) == FLt(z, Norm(75, -2)) \/ FGt(z, Norm(15, -1))

\* the conditions of the first step of traceOn under which it rejects
Step1Rejects(P, f) ==
    \/ ~PixelInBounds(Pixel(Projection(P, f, P.idepth_min)))
    \/ isfinite(P.idepth_max) /\ ~PixelInBounds(Pixel(Projection(P, f, P.idepth_max)))
    \/ ~FLt(P.idepth_min, Zero) /\ ScaleOutside(Projection(P, f, P.idepth_min)[3])

\* C5: a traceOn call on a point that is not OOB returns OOB, with
\* lastTraceUV = (-1, -1), lastTracePixelInterval = 0 and the interval
\* unchanged, whenever the min-depth projection is out of bounds, or
\* idepth_max is finite and its projection is out of bounds, or idepth_min is
\* not negative and the depth scale at idepth_min is outside [0.75, 1.5];
\* also when the interval is tight enough for SKIPPED.
C5_Step1Rejection ==
    (/\ Traces
     /\ call.before.point.lastTraceStatus # IPS_OOB
     /\ Step1Rejects(call.before.point, call.args)) =>
        /\ call.ret = IPS_OOB
        /\ point.lastTraceUV = Invalid
        /\ point.lastTracePixelInterval = Zero
        /\ SameInterval(point, call.before.point)

\* the interval of P is finite-ended and projects to two pixels in bounds that
\* are less than setting_trace_slackInterval apart
TightInterval(P, f) ==
    /\ isfinite(P.idepth_max)
    /\ PixelInBounds(Pixel(Projection(P, f, P.idepth_min)))
    /\ PixelInBounds(Pixel(Projection(P, f, P.idepth_max)))
    /\ FLt(PixelDistance(Pixel(Projection(P, f, P.idepth_min)),
                         Pixel(Projection(P, f, P.idepth_max))),
           setting_trace_slackInterval)

\* C6: a traceOn call on a point that is not OOB and whose interval is tight
\* returns SKIPPED, stores the midpoint of the two projections in lastTraceUV
\* and their distance in lastTracePixelInterval, and leaves idepth_min,
\* idepth_max and quality unchanged; a call that entered with idepth_max not
\* finite returns neither SKIPPED nor BADCONDITION.
C6_Skip ==
    /\ (/\ Traces
        /\ call.before.point.lastTraceStatus # IPS_OOB
        /\ TightInterval(call.before.point, call.args)) =>
            /\ call.ret = IPS_SKIPPED
            /\ point.lastTraceUV =
                 PixelMidPoint(
                    Pixel(Projection(call.before.point, call.args,
                                     call.before.point.idepth_min)),
                    Pixel(Projection(call.before.point, call.args,
                                     call.before.point.idepth_max)))
            /\ point.lastTracePixelInterval =
                 PixelDistance(
                    Pixel(Projection(call.before.point, call.args,
                                     call.before.point.idepth_min)),
                    Pixel(Projection(call.before.point, call.args,
                                     call.before.point.idepth_max)))
            /\ SameInterval(point, call.before.point)
            /\ point.quality = call.before.point.quality
    /\ (Traces /\ ~isfinite(call.before.point.idepth_max)) =>
            call.ret \notin {IPS_SKIPPED, IPS_BADCONDITION}

\* a traceOn call that returned SKIPPED on a tight interval
C6_Witness ==
    /\ Traces /\ call.ret = IPS_SKIPPED
    /\ TightInterval(call.before.point, call.args)

\* a traceOn call on an unbounded interval whose error bound exceeds the
\* search length
C6_WitnessUnbounded ==
    /\ Traces /\ ~isfinite(call.before.point.idepth_max)
    /\ FGt(FMul(call.errorInPixel, setting_trace_minImprovementFactor), Norm(108, -1))

(***************************************************************************)
(* Properties of calcResidual, getdPixdd and linearizeResidual, checked    *)
(* under SpecResidual                                                      *)
(***************************************************************************)
\* the projection pp failed, or the intensity sampled at it is not finite
SampleFails(T, pp) ==
    \/ ~pp.ok
    \/ ~isfinite(getInterpolatedElement33(T.img, pp.Ku, pp.Kv)[1])

\* pattern offset idx fails in calcResidual(idepth)
CalcOffsetFails(P, T, idepth, idx) ==
    SampleFails(T, projectPoint7(FAdd(P.u, FromInt(patternP[idx][1])),
                                 FAdd(P.v, FromInt(patternP[idx][2])),
                                 idepth, T.PRE_KRKiTll, T.PRE_KtTll))

\* pattern offset idx fails in linearizeResidual(idepth)
LinearizeOffsetFails(P, T, idepth, idx) ==
    SampleFails(T, projectPoint15(P.u, P.v, idepth, patternP[idx][1], patternP[idx][2],
                                  HCalib, T.PRE_RTll, T.PRE_tTll))

\* C7: calcResidual returns 1e10 when the projection or the intensity sample
\* of some pattern offset fails, whatever the other offsets do; otherwise the
\* energy it returns is at least 0 and at most energyTH * outlierTHSlack.
C7_PenaltyOrClamped ==
    (call.op = "calcResidual") =>
        IF \E idx \in 1..patternNum :
                CalcOffsetFails(call.before.point, Target, call.args[1], idx)
        THEN call.value = Norm(1, 10)
        ELSE /\ FGe(call.value, Zero)
             /\ FLe(call.value, FMul(call.before.point.energyTH, call.args[2]))

\* a calcResidual call that returned 1e10 although its first pattern offset
\* projects into the image and samples a finite intensity
C7_Witness ==
    /\ call.op = "calcResidual"
    /\ ~CalcOffsetFails(call.before.point, Target, call.args[1], 1)
    /\ \E idx \in 2..patternNum :
            CalcOffsetFails(call.before.point, Target, call.args[1], idx)
    /\ call.value = Norm(1, 10)

\* a calcResidual call that returned the bound energyTH * outlierTHSlack
C7_WitnessClamped ==
    /\ call.op = "calcResidual"
    /\ \A idx \in 1..patternNum :
            ~CalcOffsetFails(call.before.point, Target, call.args[1], idx)
    /\ call.value = FMul(call.before.point.energyTH, call.args[2])

\* C8: a calcResidual or getdPixdd call changes no field of the point and no
\* field of the candidate residual, and calcResidual calls with the same
\* idepth and outlierTHSlack return the same energy.
C8_Pure ==
    /\ (call.op \in {"calcResidual", "getdPixdd"}) =>
            /\ point = call.before.point
            /\ tmpRes = call.before.tmpRes
    /\ \A a \in energies : \A b \in energies :
            (a[1] = b[1] /\ a[2] = b[2]) => a[3] = b[3]

\* a calcResidual call whose idepth and outlierTHSlack an earlier call had,
\* made when the candidate residual is no longer as set up
C8_Witness ==
    /\ call.op = "calcResidual"
    /\ \E a \in call.before.energies : a[1] = call.args[1] /\ a[2] = call.args[2]
    /\ tmpRes.state_NewState # ResState_OUTLIER

\* C9: a linearizeResidual call on a candidate residual whose state_state is
\* OOB returns state_energy, sets state_NewState to OOB and leaves Hdd, bd,
\* state_NewEnergy, state_state and state_energy unchanged; with a caller that
\* commits state_NewState to state_state, state_state stays OOB once it is OOB.
C9_StickyOOB ==
    /\ (/\ call.op = "linearizeResidual"
        /\ call.before.tmpRes.state_state = ResState_OOB) =>
            /\ call.value = call.before.tmpRes.state_energy
            /\ tmpRes.state_NewState = ResState_OOB
            /\ Hdd = call.before.Hdd
            /\ bd = call.before.bd
            /\ tmpRes.state_NewEnergy = call.before.tmpRes.state_NewEnergy
            /\ tmpRes.state_state = call.before.tmpRes.state_state
            /\ tmpRes.state_energy = call.before.tmpRes.state_energy
    /\ (/\ call.op # "none"
        /\ call.before.tmpRes.state_state = ResState_OOB) =>
            tmpRes.state_state = ResState_OOB

\* a linearizeResidual call on a candidate residual that is OOB, at an idepth
\* where no pattern offset fails
C9_Witness ==
    /\ call.op = "linearizeResidual"
    /\ call.before.tmpRes.state_state = ResState_OOB
    /\ \A idx \in 1..patternNum :
            ~LinearizeOffsetFails(call.before.point, Target, call.args[1], idx)

\* C10: a linearizeResidual call in which the projection or the intensity
\* sample fails at some pattern offset sets state_NewState to OOB, returns
\* state_energy and leaves state_NewEnergy, Hdd and bd as they were before
\* the call.
C10_NoPartialUpdate ==
    (/\ call.op = "linearizeResidual"
     /\ call.before.tmpRes.state_state # ResState_OOB
     /\ \E idx \in 1..patternNum :
            LinearizeOffsetFails(call.before.point, Target, call.args[1], idx)) =>
        /\ tmpRes.state_NewState = ResState_OOB
        /\ call.value = call.before.tmpRes.state_energy
        /\ tmpRes.state_NewEnergy = call.before.tmpRes.state_NewEnergy
        /\ Hdd = call.before.Hdd
        /\ bd = call.before.bd

\* the energy of pattern offset idx, hitColor the sample at its projection
OffsetEnergy(P, T, idx, hitColor) ==
    ResidualEnergy(P.weights[idx],
                   FSub(hitColor[1], AffineColor(T.PRE_aff_mode, P.color[idx])))

SampleAt(T, pp) == getInterpolatedElement33(T.img, pp.Ku, pp.Kv)

\* the energy of pattern offset idx in linearizeResidual(idepth)
LinearizeOffsetEnergy(P, T, idepth, idx) ==
    OffsetEnergy(P, T, idx,
        SampleAt(T, projectPoint15(P.u, P.v, idepth, patternP[idx][1], patternP[idx][2],
                                   HCalib, T.PRE_RTll, T.PRE_tTll)))

RECURSIVE LinearizeEnergy(_, _, _, _)
\* the energy of the first n pattern offsets, added in the order of the loop
LinearizeEnergy(P, T, idepth, n) ==
    IF n = 0 THEN Zero
    ELSE FAdd(LinearizeEnergy(P, T, idepth, n - 1), LinearizeOffsetEnergy(P, T, idepth, n))

\* a linearizeResidual call on a candidate that is not OOB in which no pattern
\* offset fails
Completes ==
    /\ call.op = "linearizeResidual"
    /\ call.before.tmpRes.state_state # ResState_OOB
    /\ \A idx \in 1..patternNum :
            ~LinearizeOffsetFails(call.before.point, Target, call.args[1], idx)

\* the pending fields and the value returned, for the accumulated energy and
\* the bound energyTH * outlierTHSlack
Classified(energy, bound) ==
    /\ tmpRes.state_NewState = (IF FGt(energy, bound) THEN ResState_OUTLIER ELSE ResState_IN)
    /\ tmpRes.state_NewEnergy = (IF FGt(energy, bound) THEN bound ELSE energy)
    /\ call.value = tmpRes.state_NewEnergy
    /\ FLe(call.value, bound)

\* C11: a linearizeResidual call that completes all pattern offsets sets
\* state_NewState to OUTLIER if the accumulated energy exceeds
\* energyTH * outlierTHSlack, storing that bound as state_NewEnergy, and to IN
\* otherwise, storing the energy; it returns state_NewEnergy, which is at most
\* the bound; state_state, state_energy and the point are unchanged.
C11_Classification ==
    Completes =>
        /\ Classified(LinearizeEnergy(call.before.point, Target, call.args[1], patternNum),
                      FMul(call.before.point.energyTH, call.args[2]))
        /\ tmpRes.state_state = call.before.tmpRes.state_state
        /\ tmpRes.state_energy = call.before.tmpRes.state_energy
        /\ point = call.before.point

\* a completed linearizeResidual call that clamped the energy and set OUTLIER,
\* over pending fields that an earlier call had set to IN
C11_Witness ==
    /\ Completes
    /\ tmpRes.state_NewState = ResState_OUTLIER
    /\ call.before.tmpRes.state_NewState = ResState_IN
    /\ call.value = FMul(call.before.point.energyTH, call.args[2])

\* a completed linearizeResidual call that set IN
C11_WitnessIn ==
    /\ Completes
    /\ tmpRes.state_NewState = ResState_IN
    /\ FLt(call.value, FMul(call.before.point.energyTH, call.args[2]))

(***************************************************************************)
(* Properties over the lifetime of a point, checked under SpecLifetime     *)
(***************************************************************************)
\* C12: after any sequence of traceOn, calcResidual, linearizeResidual and
\* getdPixdd calls energyTH is the value the constructor set; only a traceOn
\* call changes lastTraceStatus; lastTraceStatus is UNINITIALIZED after no
\* traceOn call.
C12_FixedThreshold ==
    /\ (call.op = "none") =>
            /\ \E host \in Hosts, garbage \in Garbage :
                    point.energyTH = ImmaturePoint(host, garbage).energyTH
            /\ point.lastTraceStatus = IPS_UNINITIALIZED
    /\ (call.op # "none") =>
            /\ point.energyTH = call.before.point.energyTH
            /\ (call.op # "traceOn") =>
                    point.lastTraceStatus = call.before.point.lastTraceStatus
            /\ (call.op = "traceOn") => point.lastTraceStatus # IPS_UNINITIALIZED
            /\ (call.before.point.lastTraceStatus # IPS_UNINITIALIZED) =>
                    point.lastTraceStatus # IPS_UNINITIALIZED

\* a linearizeResidual call that failed on a point that a traceOn call has
\* left GOOD
C12_Witness ==
    /\ call.op = "linearizeResidual"
    /\ call.exit = "oob"
    /\ point.lastTraceStatus = IPS_GOOD

(***************************************************************************)
(* Properties of the interval kept by traceOn, checked under SpecTrace     *)
(***************************************************************************)
\* C13: a traceOn call that returns OOB, SKIPPED, BADCONDITION or OUTLIER
\* leaves idepth_min and idepth_max as they were before the call; only a call
\* that returns GOOD changes them.
C13_IntervalKept ==
    (Traces /\ call.ret # IPS_GOOD) => SameInterval(point, call.before.point)

(***************************************************************************)
(* Properties of a point whose construction was aborted, checked under     *)
(* SpecAborted                                                             *)
(***************************************************************************)
\* C14: a point whose construction met a non-finite sample has a non-finite
\* energyTH, and before any call idepth_min = 0, idepth_max not finite and
\* status UNINITIALIZED; a traceOn call on it returns OUTLIER or OOB, leaves
\* idepth_min and idepth_max unchanged, and passes the energy check only by
\* its outlier branch.
C14_AbortedPoint ==
    /\ ~isfinite(point.energyTH)
    /\ (call.op = "none") =>
            /\ point.idepth_min = Zero
            /\ ~isfinite(point.idepth_max)
            /\ point.lastTraceStatus = IPS_UNINITIALIZED
    /\ Traces =>
            /\ call.ret \in {IPS_OUTLIER, IPS_OOB}
            /\ SameInterval(point, call.before.point)
            /\ call.exit \notin {"good", "outlier_interval"}

\* a traceOn call on such a point that ran the search and returned OUTLIER
\* from the energy check
C14_Witness ==
    /\ Traces
    /\ call.exit = "outlier_energy"
    /\ call.ret = IPS_OUTLIER
    /\ call.numSteps > 0

=============================================================================
